---------------------------- MODULE Spec2Model ----------------------------
(***************************************************************************)
(* Model of urllib3/contrib/ntlmpool.py: NTLMConnectionPool.               *)
(*                                                                         *)
(*   __init__   parses "DOMAIN\user" into domain / user (lines 33-45)      *)
(*   _new_conn  the NTLM handshake over one HTTPSConnection (lines 47-111) *)
(*   urlopen    forces Connection: Keep-Alive (lines 113-121)              *)
(*                                                                         *)
(* Python strings whose characters the code inspects (the user identifier, *)
(* the www-authenticate header value) are sequences of one-character       *)
(* strings, so that split, slicing and upper() are computed, not assumed.  *)
(***************************************************************************)
EXTENDS Integers, Sequences, FiniteSets, TLC

(***************************************************************************)
(* Bounds of the model.                                                    *)
(***************************************************************************)
MaxUserLen == 3        \* longest user identifier passed to __init__
MaxTokens == 2         \* most ', '-separated tokens in a www-authenticate value
MaxCalls == 2          \* _new_conn calls one caller makes, one after the other
NumCallers == 2        \* threads that may call _new_conn on the one pool

Callers == 1 .. NumCallers

(***************************************************************************)
(* Strings as character sequences.                                         *)
(***************************************************************************)
RECURSIVE SeqsUpTo(_, _)
SeqsUpTo(S, n) ==
    IF n = 0 THEN {<< >>}
    ELSE LET shorter == SeqsUpTo(S, n - 1)
         IN  shorter \cup {Append(s, c) : s \in {t \in shorter : Len(t) = n - 1}, c \in S}

Min(S) == CHOOSE x \in S : \A y \in S : x <= y

\* s[a:b] of Python for 0 <= a <= b, clipped to the string (1-based SubSeq).
Slice(s, a, b) == SubSeq(s, a + 1, IF b < Len(s) THEN b ELSE Len(s))

\* s[a:] of Python.
SliceFrom(s, a) == SubSeq(s, a + 1, Len(s))

\* s.find(sep) of Python, 1-based; 0 when sep does not occur.
Find(s, sep) ==
    LET hits == {i \in 1 .. (Len(s) - Len(sep) + 1) :
                    SubSeq(s, i, i + Len(sep) - 1) = sep}
    IN  IF hits = {} THEN 0 ELSE Min(hits)

\* s.split(sep): every occurrence of sep cuts; '' gives [''].
RECURSIVE Split(_, _)
Split(s, sep) ==
    LET i == Find(s, sep)
    IN  IF i = 0 THEN << s >>
        ELSE << SubSeq(s, 1, i - 1) >> \o Split(SubSeq(s, i + Len(sep), Len(s)), sep)

\* s.split(sep, 1): at most one cut, at the first occurrence.
SplitOnce(s, sep) ==
    LET i == Find(s, sep)
    IN  IF i = 0 THEN << s >>
        ELSE << SubSeq(s, 1, i - 1), SubSeq(s, i + Len(sep), Len(s)) >>

\* sep.join(parts)
RECURSIVE Join(_, _)
Join(parts, sep) ==
    IF Len(parts) = 0 THEN << >>
    ELSE IF Len(parts) = 1 THEN parts[1]
    ELSE parts[1] \o sep \o Join(Tail(parts), sep)

\* str.upper() on the characters of the model's alphabets.
UpperChar(c) ==
    CASE c = "a" -> "A"
      [] c = "b" -> "B"
      [] c = "n" -> "N"
      [] c = "t" -> "T"
      [] c = "l" -> "L"
      [] c = "m" -> "M"
      [] OTHER -> c

Upper(s) == [i \in 1 .. Len(s) |-> UpperChar(s[i])]

(***************************************************************************)
(* Inputs of __init__.                                                     *)
(***************************************************************************)
BACKSLASH == << "\\" >>
UserChars == {"a", "\\"}
Users == SeqsUpTo(UserChars, MaxUserLen)
Passwords == {"secret"}
AuthUrls == {"/auth"}


(***************************************************************************)
(* Exceptions.  kind is the Python class of the raised object; text,       *)
(* status, reason and header are what its message is formatted from.       *)
(***************************************************************************)
Error(kind, text, status, reason, header) ==
    [kind |-> kind, text |-> text, status |-> status, reason |-> reason,
     header |-> header]

NoError == Error("none", "", 0, "", << >>)

\* user_parts[1] on a one-element list (line 44).
IndexError == Error("IndexError", "list index out of range", 0, "", << >>)

\* reshdr[resp_header] on a dict without that key (line 77).
KeyError(key) == Error("KeyError", key, 0, "", << >>)

\* Raised inside conn.request / conn.getresponse by the transport.
TransportError == Error("TransportError", "", 0, "", << >>)

\* Raised inside ntlm.parse_NTLM_CHALLENGE_MESSAGE on a token it cannot decode.
CodecError == Error("CodecError", "", 0, "", << >>)

(***************************************************************************)
(* The pool object.  attrs is the set of attributes assigned so far.       *)
(***************************************************************************)
VARIABLES
    args,       \* the arguments NTLMConnectionPool(...) was called with
    ctor,       \* "none" | "ok" | "failed": outcome of NTLMConnectionPool(...)
    ctorErr,    \* the exception __init__ raised, NoError otherwise
    pool        \* self: authurl, rawuser, domain, user, pw, num_connections

NoPool ==
    [attrs |-> {}, authurl |-> "", rawuser |-> << >>, domain |-> << >>,
     user |-> << >>, pw |-> "", num_connections |-> 0]

NoArgs == [user |-> << >>, pw |-> "", authurl |-> ""]

\* list[i] that falls back to the last element when i is out of range.
IndexOrLast(list, i) ==
    [raised |-> FALSE, value |-> list[IF i < Len(list) THEN i + 1 ELSE Len(list)]]

\* list[i] of Python for i >= 0: the element, or IndexError raised.
Index(list, i) ==
    IF i < Len(list)
    THEN [raised |-> FALSE, value |-> list[i + 1]]
    ELSE [raised |-> TRUE, value |-> << >>]

\* Lines 39-43 without the .upper() of line 43.
InitHeadKeepCase(user, authurl) ==
    [NoPool EXCEPT !.attrs = {"num_connections", "authurl", "rawuser", "domain"},
                   !.authurl = authurl,
                   !.rawuser = user,
                   !.domain = Index(SplitOnce(user, BACKSLASH), 0).value]

\* Lines 39-43.  num_connections = 0 is set by the base pool's __init__.
InitHead(user, authurl) ==
    [NoPool EXCEPT !.attrs = {"num_connections", "authurl", "rawuser", "domain"},
                   !.authurl = authurl,
                   !.rawuser = user,
                   !.domain = Upper(Index(SplitOnce(user, BACKSLASH), 0).value)]

\* Lines 44-45, once user_parts[1] is there.
InitTail(self, user_part, pw) ==
    [self EXCEPT !.attrs = @ \cup {"user", "pw"},
                 !.user = user_part,
                 !.pw = pw]

(***************************************************************************)
(* The NTLM codec (package ntlm), used as a black box.  A message is the   *)
(* record of what it was created from.                                     *)
(***************************************************************************)
NoMessage ==
    [type |-> "none", rawuser |-> << >>, user |-> << >>, domain |-> << >>,
     pw |-> "", ServerChallenge |-> "", NegotiateFlags |-> ""]

create_NTLM_NEGOTIATE_MESSAGE(rawuser) ==
    [NoMessage EXCEPT !.type = "NEGOTIATE", !.rawuser = rawuser]

create_NTLM_AUTHENTICATE_MESSAGE(ServerChallenge, user, domain, pw, NegotiateFlags) ==
    [NoMessage EXCEPT !.type = "AUTHENTICATE", !.user = user, !.domain = domain,
                      !.pw = pw, !.ServerChallenge = ServerChallenge,
                      !.NegotiateFlags = NegotiateFlags]

\* The challenge tokens the codec can decode, with what they decode to.
Decodable == {<< "A" >>, << "B" >>}

parse_NTLM_CHALLENGE_MESSAGE(token) ==
    IF token = << "A" >>
    THEN [ServerChallenge |-> "challengeA", NegotiateFlags |-> "flagsA"]
    ELSE [ServerChallenge |-> "challengeB", NegotiateFlags |-> "flagsB"]

(***************************************************************************)
(* What the server may answer.                                             *)
(***************************************************************************)
req_header == "Authorization"
resp_header == "www-authenticate"

NTLM_ == << "N", "T", "L", "M", " " >>      \* 'NTLM '
COMMA_SPACE == << ",", " " >>                 \* ', '

\* Tokens a www-authenticate value is joined from.
HeaderTokens ==
    { NTLM_ \o << "A" >>,                     \* NTLM A
      NTLM_ \o << "B" >>,                     \* NTLM B
      NTLM_,                                  \* NTLM     (empty token, not decodable)
      << "n", "t", "l", "m", " ", "A" >>,     \* ntlm A   (wrong case)
      << "N", "T", "L", "M", "A" >>,          \* NTLMA    (no space)
      << "B", "a", "s", "i", "c" >> }         \* Basic

HeaderValues ==
    {Join(toks, COMMA_SPACE) : toks \in SeqsUpTo(HeaderTokens, MaxTokens)}

\* dict(res.getheaders()) as a set of items; the names are the keys the HTTP
\* library reports (lower-cased by httplib, as sent by http.client).
HeaderNames == {resp_header, "WWW-Authenticate"}

HeaderMaps ==
    {{}} \cup
    {{[name |-> n, value |-> v]} : n \in HeaderNames, v \in HeaderValues}

HasKey(d, key) == \E item \in d : item.name = key

\* d[key]
Item(d, key) == (CHOOSE item \in d : item.name = key).value

FirstResponses ==
    { [status |-> 401, reason |-> "Unauthorized"],
      [status |-> 200, reason |-> "OK"] }

\* res.read(100), line 70.
PreviewBytes == 100

\* Lengths of the first response's body.
BodyLengths == {0, PreviewBytes, PreviewBytes + 1}

\* How many bytes res.read(n) takes from a body of length bytes.
Read(length, n) == IF length < n THEN length ELSE n

FinalResponses ==
    { [status |-> 200, reason |-> "OK"],
      [status |-> 401, reason |-> "Unauthorized"],
      [status |-> 403, reason |-> "Forbidden"],
      [status |-> 500, reason |-> "Internal Server Error"],
      [status |-> 500, reason |-> "Server Error"] }

(***************************************************************************)
(* State of the _new_conn calls, one per caller.                           *)
(***************************************************************************)
VARIABLES
    pc,                 \* where each caller is in _new_conn
    calls,              \* how many _new_conn calls each caller has started
    loaded,             \* the value of self.num_connections read at line 50
    objects,            \* HTTPSConnection objects constructed so far
    conn,               \* local conn: the object's identity and its socket
    headers,            \* local headers
    res1,               \* the response object of line 66
    reshdr,             \* local reshdr
    auth_header_value,  \* local auth_header_value
    res2,               \* the response object of line 99
    ret,                \* identity of the connection returned, 0 if none
    err,                \* the exception the call ended with, NoError if none
    wire                \* what the call did on the transport, in order

(***************************************************************************)
(* urlopen (lines 113-121).  An optional value is a sequence of length at  *)
(* most one: << >> is None for body and headers, and an argument the       *)
(* caller left out for retries, redirect and assert_same_host.             *)
(***************************************************************************)
VARIABLE last_urlopen   \* the latest urlopen call: what it was given, what
                        \* it passed to the underlying pool, and how it ended

Methods == {"GET", "POST"}
Urls == {"/"}
Bodies == {<< >>, <<"data">>}

\* Header maps a caller can give: sets of [name, value] with distinct names.
RequestHeaderMaps ==
    { c \cup a \cup l :
        c \in {{}, {[name |-> "Connection", value |-> "close"]},
                   {[name |-> "Connection", value |-> "Keep-Alive"]}},
        a \in {{}, {[name |-> "Accept", value |-> "*/*"]}},
        l \in {{}, {[name |-> "connection", value |-> "close"]}} }

UrlopenArgs ==
    [method : Methods, url : Urls, body : Bodies,
     headers : {<< >>} \cup {<<h>> : h \in RequestHeaderMaps},
     retries : {<< >>, <<0>>},
     redirect : {<< >>, <<FALSE>>},
     assert_same_host : {<< >>, <<FALSE>>}]

\* What the urlopen of the underlying pool can do: return a response or raise.
SuperOutcomes ==
    { [kind |-> "response", status |-> 200],
      [kind |-> "response", status |-> 500],
      [kind |-> "raise", status |-> 0] }

NoOutcome == [kind |-> "none", status |-> 0]

\* The value of a parameter: the argument, or the default when left out.
Arg(given, default) == IF given = << >> THEN default ELSE given[1]

\* d.setdefault(k, v): an entry already there is kept.
SetDefault(d, k, v) ==
    IF \E e \in d : e.name = k THEN d ELSE d \cup {[name |-> k, value |-> v]}

\* d[k] = v
SetItem(d, k, v) == {e \in d : e.name # k} \cup {[name |-> k, value |-> v]}

\* Lines 115-117.
KeepAlive(given_headers) ==
    SetItem(Arg(given_headers, {}), "Connection", "Keep-Alive")

\* The arguments passed in the order (method, url, body, headers, redirect,
\* retries, assert_same_host), retries and redirect taking each other's place.
DelegatedRetriesAsRedirect(given) ==
    [method |-> given.method, url |-> given.url, body |-> given.body,
     headers |-> KeepAlive(given.headers),
     retries |-> IF Arg(given.redirect, TRUE) THEN 1 ELSE 0,
     redirect |-> Arg(given.retries, 3) # 0,
     assert_same_host |-> Arg(given.assert_same_host, TRUE)]

\* Lines 113-114 and 118-121: the arguments of super().urlopen.
Delegated(given) ==
    [method |-> given.method, url |-> given.url, body |-> given.body,
     headers |-> KeepAlive(given.headers),
     retries |-> Arg(given.retries, 3),
     redirect |-> Arg(given.redirect, TRUE),
     assert_same_host |-> Arg(given.assert_same_host, TRUE)]

NoUrlopen ==
    [called |-> FALSE,
     given |-> [method |-> "", url |-> "", body |-> << >>, headers |-> << >>,
                retries |-> << >>, redirect |-> << >>, assert_same_host |-> << >>],
     passed |-> [method |-> "", url |-> "", body |-> << >>, headers |-> {},
                 retries |-> 0, redirect |-> FALSE, assert_same_host |-> FALSE],
     super |-> NoOutcome,
     outcome |-> NoOutcome]

urlopenVars == << last_urlopen >>
poolVars == << args, ctor, ctorErr, pool >>
callVars == << pc, calls, loaded, objects, conn, headers, res1, reshdr,
               auth_header_value, res2, ret, err, wire >>
vars == << args, ctor, ctorErr, pool, pc, calls, loaded, objects, conn, headers, res1,
           reshdr, auth_header_value, res2, ret, err, wire, last_urlopen >>

NoConn == [id |-> 0, sock |-> "none", unread |-> 0]
NoHeaders == [Connection |-> "", Authorization |-> [scheme |-> "", token |-> NoMessage]]
NoResponse ==
    [received |-> FALSE, status |-> 0, reason |-> "", fp |-> "None", source |-> ""]
None == [found |-> FALSE, value |-> << >>]
NoRequest == [method |-> "", url |-> "", body |-> "", headers |-> NoHeaders]

\* One entry of wire: a transport connect, a request sent, a response read.
Event(what, id, request, status) ==
    [what |-> what, conn |-> id, request |-> request, status |-> status]

Ended == {"returned", "raised"}

Init ==
    /\ args = NoArgs
    /\ ctor = "none"
    /\ ctorErr = NoError
    /\ pool = NoPool
    /\ pc = [p \in Callers |-> "idle"]
    /\ calls = [p \in Callers |-> 0]
    /\ loaded = [p \in Callers |-> 0]
    /\ objects = 0
    /\ conn = [p \in Callers |-> NoConn]
    /\ headers = [p \in Callers |-> NoHeaders]
    /\ res1 = [p \in Callers |-> NoResponse]
    /\ reshdr = [p \in Callers |-> {}]
    /\ auth_header_value = [p \in Callers |-> None]
    /\ res2 = [p \in Callers |-> NoResponse]
    /\ ret = [p \in Callers |-> 0]
    /\ err = [p \in Callers |-> NoError]
    /\ wire = [p \in Callers |-> << >>]
    /\ last_urlopen = NoUrlopen

\* NTLMConnectionPool.__init__(user, pw, authurl), user drawn from users.
ConstructFrom(users) ==
    /\ ctor = "none"
    /\ \E user \in users, pw \in Passwords, authurl \in AuthUrls :
          LET user_parts == SplitOnce(user, BACKSLASH)
              head == InitHead(user, authurl)
              second == Index(user_parts, 1)
          IN  /\ args' = [user |-> user, pw |-> pw, authurl |-> authurl]
              /\ IF second.raised
                 THEN /\ pool' = head
                      /\ ctor' = "failed"
                      /\ ctorErr' = IndexError
                 ELSE /\ pool' = InitTail(head, second.value, pw)
                      /\ ctor' = "ok"
                      /\ ctorErr' = NoError
    /\ UNCHANGED << callVars, urlopenVars >>

Construct == ConstructFrom(Users)

\* The call of p ends by raising e.
Raise(p, e) ==
    /\ err' = [err EXCEPT ![p] = e]
    /\ pc' = [pc EXCEPT ![p] = "raised"]

(***************************************************************************)
(* _new_conn, line 50: self.num_connections += 1 is a load and a store.    *)
(***************************************************************************)
\* p calls _new_conn, for at most limit calls in all.
LoadNumConnectionsUpTo(p, limit) ==
    /\ ctor = "ok"
    /\ pc[p] \in {"idle"} \cup Ended
    /\ calls[p] < limit
    /\ calls' = [calls EXCEPT ![p] = @ + 1]
    /\ loaded' = [loaded EXCEPT ![p] = pool.num_connections]
    /\ conn' = [conn EXCEPT ![p] = NoConn]
    /\ headers' = [headers EXCEPT ![p] = NoHeaders]
    /\ res1' = [res1 EXCEPT ![p] = NoResponse]
    /\ reshdr' = [reshdr EXCEPT ![p] = {}]
    /\ auth_header_value' = [auth_header_value EXCEPT ![p] = None]
    /\ res2' = [res2 EXCEPT ![p] = NoResponse]
    /\ ret' = [ret EXCEPT ![p] = 0]
    /\ err' = [err EXCEPT ![p] = NoError]
    /\ wire' = [wire EXCEPT ![p] = << >>]
    /\ pc' = [pc EXCEPT ![p] = "store_num_connections"]
    /\ UNCHANGED << poolVars, urlopenVars, objects >>

LoadNumConnections(p) == LoadNumConnectionsUpTo(p, MaxCalls)

StoreNumConnections(p) ==
    /\ pc[p] = "store_num_connections"
    /\ pool' = [pool EXCEPT !.num_connections = loaded[p] + 1]
    /\ pc' = [pc EXCEPT ![p] = "new_connection"]
    /\ UNCHANGED << args, ctor, ctorErr, calls, loaded, objects, conn, headers, res1,
                    reshdr, auth_header_value, res2, ret, err, wire, last_urlopen >>

(***************************************************************************)
(* Lines 57-62: the connection object and the NEGOTIATE headers.           *)
(***************************************************************************)
\* f'NTLM {message}'
NTLM(message) == [scheme |-> "NTLM", token |-> message]

NegotiateHeaders(self) ==
    [Connection |-> "Keep-Alive",
     Authorization |-> NTLM(create_NTLM_NEGOTIATE_MESSAGE(self.rawuser))]

NewHTTPSConnection(p) ==
    /\ pc[p] = "new_connection"
    /\ objects' = objects + 1
    /\ conn' = [conn EXCEPT ![p] = [id |-> objects + 1, sock |-> "none", unread |-> 0]]
    /\ headers' = [headers EXCEPT ![p] = NegotiateHeaders(pool)]
    /\ pc' = [pc EXCEPT ![p] = "request_negotiate"]
    /\ UNCHANGED << poolVars, urlopenVars, calls, loaded, res1, reshdr, auth_header_value,
                    res2, ret, err, wire >>

(***************************************************************************)
(* conn.request('GET', self.authurl, None, headers), lines 65 and 98.      *)
(* HTTPConnection.request connects first when the object has no open      *)
(* socket; the connect or the send may fail.                               *)
(***************************************************************************)
Get(self, hdrs) ==
    [method |-> "GET", url |-> self.authurl, body |-> "None", headers |-> hdrs]

\* The events of a request that is sent on connection c.
SendEvents(c, request) ==
    (IF c.sock = "open" THEN << >> ELSE << Event("connect", c.id, NoRequest, 0) >>)
        \o << Event("request", c.id, request, 0) >>

ConnRequest(p, next) ==
    \/ \* sent, on a socket connected now if there was none
       /\ wire' = [wire EXCEPT ![p] = @ \o SendEvents(conn[p], Get(pool, headers[p]))]
       /\ conn' = [conn EXCEPT ![p].sock = "open"]
       /\ pc' = [pc EXCEPT ![p] = next]
       /\ UNCHANGED err
    \/ \* the connect fails: no socket
       /\ conn[p].sock # "open"
       /\ Raise(p, TransportError)
       /\ UNCHANGED << conn, wire >>
    \/ \* the send fails on the connected socket
       /\ wire' = [wire EXCEPT ![p] =
                     @ \o (IF conn[p].sock = "open" THEN << >>
                           ELSE << Event("connect", conn[p].id, NoRequest, 0) >>)]
       /\ conn' = [conn EXCEPT ![p].sock = "open"]
       /\ Raise(p, TransportError)

RequestNegotiate(p) ==
    /\ pc[p] = "request_negotiate"
    /\ ConnRequest(p, "response_negotiate")
    /\ UNCHANGED << poolVars, urlopenVars, calls, loaded, objects, headers, res1, reshdr,
                    auth_header_value, res2, ret >>

(***************************************************************************)
(* Lines 66-74: the first response; res.fp = None detaches it.             *)
(***************************************************************************)
\* source: "reply" when the response was parsed from the server's answer to
\* the request just sent, "leftover" when from bytes an earlier response left
\* unread on the socket.
Received(r, fp) ==
    [received |-> TRUE, status |-> r.status, reason |-> r.reason, fp |-> fp,
     source |-> "reply"]

\* Lines 74 and 109 left out: the response keeps its reference to the socket.
KeepAttached(res) == res

\* res.fp = None (lines 74 and 109).
Detach(res) == [res EXCEPT !.fp = "None"]

\* Lines 72-73: a response object that still refers to the socket can close
\* it when the response is closed or collected.
ResponseClosesSocket(p) ==
    /\ conn[p].sock = "open"
    /\ \/ /\ res1[p].fp = "socket"
          /\ res1' = [res1 EXCEPT ![p].fp = "closed"]
          /\ UNCHANGED res2
       \/ /\ res2[p].fp = "socket"
          /\ res2' = [res2 EXCEPT ![p].fp = "closed"]
          /\ UNCHANGED res1
    /\ conn' = [conn EXCEPT ![p].sock = "closed"]
    /\ UNCHANGED << poolVars, urlopenVars, pc, calls, loaded, objects, headers, reshdr,
                    auth_header_value, ret, err, wire >>

\* What of a body of length bytes can stay on the socket after res.read(100)
\* and res.fp = None: the bytes not read, or nothing when they all sat in the
\* read-ahead buffer of the response that line 74 drops.
Unread(length) == {length - Read(length, PreviewBytes), 0}

\* The server's first answer is drawn from responses, maps and lengths.
GetChallengeResponseFrom(p, responses, maps, lengths) ==
    /\ pc[p] = "response_negotiate"
    /\ \/ \E r \in responses, hdrs \in maps, length \in lengths :
          \E rest \in Unread(length) :
             /\ res1' = [res1 EXCEPT ![p] = Detach(Received(r, "socket"))]
             /\ reshdr' = [reshdr EXCEPT ![p] = hdrs]
             /\ conn' = [conn EXCEPT ![p].unread = rest]
             /\ wire' = [wire EXCEPT ![p] =
                           Append(@, Event("response", conn[p].id, NoRequest, r.status))]
             /\ pc' = [pc EXCEPT ![p] = "find_challenge"]
             /\ UNCHANGED err
       \/ /\ Raise(p, TransportError)
          /\ UNCHANGED << res1, reshdr, conn, wire >>
    /\ UNCHANGED << poolVars, urlopenVars, calls, loaded, objects, headers,
                    auth_header_value, res2, ret >>

GetChallengeResponse(p) ==
    GetChallengeResponseFrom(p, FirstResponses, HeaderMaps, BodyLengths)

(***************************************************************************)
(* Lines 77-85: the challenge token of the www-authenticate header.        *)
(***************************************************************************)
\* Lines 78-81 with the prefix test of line 80 made case-insensitive.
RECURSIVE ChallengeTokenAnyCase(_, _)
ChallengeTokenAnyCase(auth_header_values, value) ==
    IF Len(auth_header_values) = 0 THEN value
    ELSE LET s == Head(auth_header_values)
         IN  ChallengeTokenAnyCase(Tail(auth_header_values),
                                   IF Upper(Slice(s, 0, 5)) = NTLM_
                                   THEN [found |-> TRUE, value |-> SliceFrom(s, 5)]
                                   ELSE value)

\* Lines 78-81: every token prefixed 'NTLM ' assigns, so the last one stays.
RECURSIVE ChallengeToken(_, _)
ChallengeToken(auth_header_values, value) ==
    IF Len(auth_header_values) = 0 THEN value
    ELSE LET s == Head(auth_header_values)
         IN  ChallengeToken(Tail(auth_header_values),
                            IF Slice(s, 0, 5) = NTLM_
                            THEN [found |-> TRUE, value |-> SliceFrom(s, 5)]
                            ELSE value)

\* Lines 83-85.
UnexpectedHeader(raw) ==
    Error("Exception", "Unexpected www-authenticate response header: ", 0, "", raw)

\* Lines 77-85 preceded by a test that the first response's status is 401.
FindChallengeOn401Only(p) ==
    /\ pc[p] = "find_challenge"
    /\ IF res1[p].status # 401 \/ ~HasKey(reshdr[p], resp_header)
       THEN /\ Raise(p, KeyError(resp_header))
            /\ UNCHANGED auth_header_value
       ELSE LET raw == Item(reshdr[p], resp_header)
                value == ChallengeToken(Split(raw, COMMA_SPACE), None)
            IN  /\ auth_header_value' = [auth_header_value EXCEPT ![p] = value]
                /\ IF value = None
                   THEN Raise(p, UnexpectedHeader(raw))
                   ELSE /\ pc' = [pc EXCEPT ![p] = "build_authenticate"]
                        /\ UNCHANGED err
    /\ UNCHANGED << poolVars, urlopenVars, calls, loaded, objects, conn, headers, res1, reshdr,
                    res2, ret, wire >>

FindChallenge(p) ==
    /\ pc[p] = "find_challenge"
    /\ IF ~HasKey(reshdr[p], resp_header)
       THEN /\ Raise(p, KeyError(resp_header))
            /\ UNCHANGED auth_header_value
       ELSE LET raw == Item(reshdr[p], resp_header)
                value == ChallengeToken(Split(raw, COMMA_SPACE), None)
            IN  /\ auth_header_value' = [auth_header_value EXCEPT ![p] = value]
                /\ IF value = None
                   THEN Raise(p, UnexpectedHeader(raw))
                   ELSE /\ pc' = [pc EXCEPT ![p] = "build_authenticate"]
                        /\ UNCHANGED err
    /\ UNCHANGED << poolVars, urlopenVars, calls, loaded, objects, conn, headers, res1, reshdr,
                    res2, ret, wire >>

(***************************************************************************)
(* Lines 89-96: the AUTHENTICATE message replaces the Authorization header.*)
(***************************************************************************)
\* Lines 89-96 with self.user and self.domain passed in each other's place.
AuthenticateHeadersSwapped(hdrs, self, token) ==
    LET parsed == parse_NTLM_CHALLENGE_MESSAGE(token)
        auth_msg == create_NTLM_AUTHENTICATE_MESSAGE(parsed.ServerChallenge,
                                                     self.domain,
                                                     self.user,
                                                     self.pw,
                                                     parsed.NegotiateFlags)
    IN  [hdrs EXCEPT !.Authorization = NTLM(auth_msg)]

AuthenticateHeaders(hdrs, self, token) ==
    LET parsed == parse_NTLM_CHALLENGE_MESSAGE(token)
        auth_msg == create_NTLM_AUTHENTICATE_MESSAGE(parsed.ServerChallenge,
                                                     self.user,
                                                     self.domain,
                                                     self.pw,
                                                     parsed.NegotiateFlags)
    IN  [hdrs EXCEPT !.Authorization = NTLM(auth_msg)]

\* Lines 89-96 with the challenge kept in one place for all calls: the
\* message is built from the challenge any call has found.
BuildAuthenticateFromSharedChallenge(p) ==
    /\ pc[p] = "build_authenticate"
    /\ \E q \in Callers :
          /\ auth_header_value[q] # None
          /\ IF auth_header_value[q].value \notin Decodable
             THEN /\ Raise(p, CodecError)
                  /\ UNCHANGED headers
             ELSE /\ headers' = [headers EXCEPT ![p] =
                                   AuthenticateHeaders(@, pool, auth_header_value[q].value)]
                  /\ pc' = [pc EXCEPT ![p] = "request_authenticate"]
                  /\ UNCHANGED err
    /\ UNCHANGED << poolVars, urlopenVars, calls, loaded, objects, conn, res1, reshdr,
                    auth_header_value, res2, ret, wire >>

BuildAuthenticate(p) ==
    /\ pc[p] = "build_authenticate"
    /\ IF auth_header_value[p].value \notin Decodable
       THEN /\ Raise(p, CodecError)
            /\ UNCHANGED headers
       ELSE /\ headers' = [headers EXCEPT ![p] =
                             AuthenticateHeaders(@, pool, auth_header_value[p].value)]
            /\ pc' = [pc EXCEPT ![p] = "request_authenticate"]
            /\ UNCHANGED err
    /\ UNCHANGED << poolVars, urlopenVars, calls, loaded, objects, conn, res1, reshdr,
                    auth_header_value, res2, ret, wire >>

\* Line 98 sending on a second HTTPSConnection instead of conn.
RequestAuthenticateOnNewConnection(p) ==
    /\ pc[p] = "request_authenticate"
    /\ objects' = objects + 1
    /\ conn' = [conn EXCEPT ![p] = [id |-> objects + 1, sock |-> "open", unread |-> 0]]
    /\ wire' = [wire EXCEPT ![p] =
                  @ \o SendEvents([id |-> objects + 1, sock |-> "none", unread |-> 0],
                                  Get(pool, headers[p]))]
    /\ pc' = [pc EXCEPT ![p] = "response_authenticate"]
    /\ UNCHANGED << poolVars, urlopenVars, calls, loaded, headers, res1, reshdr,
                    auth_header_value, res2, ret, err >>

RequestAuthenticate(p) ==
    /\ pc[p] = "request_authenticate"
    /\ ConnRequest(p, "response_authenticate")
    /\ UNCHANGED << poolVars, urlopenVars, calls, loaded, objects, headers, res1, reshdr,
                    auth_header_value, res2, ret >>

(***************************************************************************)
(* Lines 99-111: the final response decides.                               *)
(***************************************************************************)
\* Lines 104-106.
Rejected ==
    Error("Exception", "Server rejected request: wrong username or password",
          0, "", << >>)

\* Line 107 with the reason phrase left out of the message.
WrongResponseStatusOnly(res) ==
    Error("Exception", "Wrong server response: ", res.status, "", << >>)

\* Line 107.
WrongResponse(res) ==
    Error("Exception", "Wrong server response: ", res.status, res.reason, << >>)

\* Lines 103-107 with the test of line 103 as res.status >= 500.
FinalErrorServerErrorsOnly(res) ==
    IF res.status >= 500 THEN WrongResponse(res) ELSE NoError

\* Lines 103-107 without the branch of lines 104-106.
FinalErrorNo401Branch(res) ==
    IF res.status # 200 THEN WrongResponse(res) ELSE NoError

\* Lines 103-107: the exception raised for the final response, NoError if none.
FinalError(res) ==
    IF res.status # 200
    THEN IF res.status = 401 THEN Rejected ELSE WrongResponse(res)
    ELSE NoError

\* The status line could not be parsed (httplib.BadStatusLine).
BadStatusLine == Error("BadStatusLine", "", 0, "", << >>)

\* Lines 99-111 on a response r that getresponse parsed; source tells where
\* its bytes came from.
FinalResponse(p, r, source) ==
    LET e == FinalError(r)
    IN  /\ wire' = [wire EXCEPT ![p] =
                      Append(@, Event("response", conn[p].id, NoRequest, r.status))]
        /\ IF e # NoError
           THEN /\ res2' = [res2 EXCEPT ![p] =
                               [Received(r, "socket") EXCEPT !.source = source]]
                /\ Raise(p, e)
                /\ UNCHANGED ret
           ELSE /\ res2' = [res2 EXCEPT ![p] =
                               [Detach(Received(r, "socket")) EXCEPT !.source = source]]
                /\ ret' = [ret EXCEPT ![p] = conn[p].id]
                /\ pc' = [pc EXCEPT ![p] = "returned"]
                /\ UNCHANGED err

\* Lines 99-111 sending the AUTHENTICATE request once more after a 401.
GetFinalResponseRetry401(p) ==
    /\ pc[p] = "response_authenticate"
    /\ \E r \in FinalResponses :
          IF r.status = 401
                /\ Len(SelectSeq(wire[p], LAMBDA ev : ev.what = "request")) < 3
          THEN /\ wire' = [wire EXCEPT ![p] =
                             Append(@, Event("response", conn[p].id, NoRequest, r.status))]
               /\ res2' = [res2 EXCEPT ![p] = Detach(Received(r, "socket"))]
               /\ pc' = [pc EXCEPT ![p] = "request_authenticate"]
               /\ UNCHANGED << ret, err >>
          ELSE FinalResponse(p, r, "reply")
    /\ UNCHANGED << poolVars, urlopenVars, calls, loaded, objects, conn, headers, res1, reshdr,
                    auth_header_value >>

\* getresponse parses whatever comes next on the socket: the bytes the first
\* response left unread, if any, and the server's answer otherwise.
GetFinalResponseFrom(p, finals) ==
    /\ pc[p] = "response_authenticate"
    /\ \/ /\ conn[p].unread = 0
          /\ \E r \in finals : FinalResponse(p, r, "reply")
       \/ /\ conn[p].unread > 0
          /\ \/ \E r \in finals : FinalResponse(p, r, "leftover")
             \/ /\ Raise(p, BadStatusLine)
                /\ UNCHANGED << res2, ret, wire >>
       \/ /\ Raise(p, TransportError)
          /\ UNCHANGED << res2, ret, wire >>
    /\ UNCHANGED << poolVars, urlopenVars, calls, loaded, objects, conn, headers, res1, reshdr,
                    auth_header_value >>

GetFinalResponse(p) == GetFinalResponseFrom(p, FinalResponses)

NewConn(p) ==
    \/ LoadNumConnections(p)
    \/ StoreNumConnections(p)
    \/ NewHTTPSConnection(p)
    \/ RequestNegotiate(p)
    \/ GetChallengeResponse(p)
    \/ FindChallenge(p)
    \/ BuildAuthenticate(p)
    \/ RequestAuthenticate(p)
    \/ GetFinalResponse(p)

Next ==
    \/ Construct
    \/ NewConn(1)
    \/ ResponseClosesSocket(1)

Spec == Init /\ [][Next]_vars

\* urlopen keeping the url of the request in self.authurl.
UrlopenStoringUrl(given_calls) ==
    /\ ctor = "ok"
    /\ \E given \in given_calls, result \in SuperOutcomes :
          /\ last_urlopen' = [called |-> TRUE,
                              given |-> given,
                              passed |-> Delegated(given),
                              super |-> result,
                              outcome |-> result]
          /\ pool' = [pool EXCEPT !.authurl = given.url]
    /\ UNCHANGED << args, ctor, ctorErr, callVars >>

\* urlopen(method, url, body, headers, retries, redirect, assert_same_host),
\* the call drawn from given_calls.
UrlopenFrom(given_calls) ==
    /\ ctor = "ok"
    /\ \E given \in given_calls, result \in SuperOutcomes :
          last_urlopen' = [called |-> TRUE,
                           given |-> given,
                           passed |-> Delegated(given),
                           super |-> result,
                           outcome |-> result]
    /\ UNCHANGED << poolVars, callVars >>

Urlopen == UrlopenFrom(UrlopenArgs)

\* One pool and the requests made through it.
UrlopenUsers == {<<"a", BACKSLASH, "a">>, <<"a">>}

NextUrlopen ==
    \/ ConstructFrom(UrlopenUsers)
    \/ Urlopen

SpecUrlopen == Init /\ [][NextUrlopen]_vars

(***************************************************************************)
(* Concurrent _new_conn calls on one pool, one call per caller, each on    *)
(* its own transport.                                                      *)
(***************************************************************************)
ConcurrentUsers == {<<"a", BACKSLASH, "a">>}

ConcurrentMaps ==
    {{[name |-> resp_header, value |-> NTLM_ \o t]} : t \in Decodable}

ConcurrentFirst == {[status |-> 401, reason |-> "Unauthorized"]}

ConcurrentFinals ==
    { [status |-> 200, reason |-> "OK"],
      [status |-> 401, reason |-> "Unauthorized"] }

NewConnConcurrent(p) ==
    \/ LoadNumConnectionsUpTo(p, 1)
    \/ StoreNumConnections(p)
    \/ NewHTTPSConnection(p)
    \/ RequestNegotiate(p)
    \/ GetChallengeResponseFrom(p, ConcurrentFirst, ConcurrentMaps, {0})
    \/ FindChallenge(p)
    \/ BuildAuthenticate(p)
    \/ RequestAuthenticate(p)
    \/ GetFinalResponseFrom(p, ConcurrentFinals)

NextConcurrent ==
    \/ ConstructFrom(ConcurrentUsers)
    \/ \E p \in Callers : NewConnConcurrent(p)

SpecConcurrent == Init /\ [][NextConcurrent]_vars

(***************************************************************************)
(* Two uses of one pool side by side: callers 1 and 2 make one _new_conn   *)
(* call each, against servers that answer alike or differently, and        *)
(* requests go through urlopen.                                            *)
(***************************************************************************)
Pair == {1, 2}

PairMaps ==
    ConcurrentMaps \cup
    {{}, {[name |-> resp_header, value |-> << "B", "a", "s", "i", "c" >>]}}

PairUrlopens ==
    {[method |-> "GET", url |-> "/", body |-> << >>, headers |-> << >>,
      retries |-> << >>, redirect |-> << >>, assert_same_host |-> << >>]}

NewConnPair(p) ==
    \/ LoadNumConnectionsUpTo(p, 1)
    \/ StoreNumConnections(p)
    \/ NewHTTPSConnection(p)
    \/ RequestNegotiate(p)
    \/ GetChallengeResponseFrom(p, FirstResponses, PairMaps, {0})
    \/ FindChallenge(p)
    \/ BuildAuthenticate(p)
    \/ RequestAuthenticate(p)
    \/ GetFinalResponseFrom(p, ConcurrentFinals)

NextPair ==
    \/ ConstructFrom(ConcurrentUsers)
    \/ \E p \in Pair : NewConnPair(p)
    \/ UrlopenFrom(PairUrlopens)

SpecPair == Init /\ [][NextPair]_vars

(***************************************************************************)
(* Properties.                                                             *)
(***************************************************************************)
Requests(w) == SelectSeq(w, LAMBDA e : e.what = "request")
Responses(w) == SelectSeq(w, LAMBDA e : e.what = "response")
Connects(w) == SelectSeq(w, LAMBDA e : e.what = "connect")

\* Both exchanges of p's call completed and the second answer was 200.
Authenticated(p) ==
    /\ res1[p].received
    /\ res2[p].received
    /\ res2[p].status = 200
    /\ Len(Requests(wire[p])) = 2
    /\ Len(Responses(wire[p])) = 2

FinalStatusIn(p, S) ==
    /\ pc[p] \in Ended
    /\ res2[p].received
    /\ res2[p].status \in S

OtherFinalResponses == {r \in FinalResponses : r.status \notin {200, 401}}

C3_WrongResponseCarriesStatus ==
    \A p \in Callers :
        (pc[p] \in Ended /\ res2[p].received /\ res2[p].status \notin {200, 401}) =>
            /\ pc[p] = "raised"
            /\ ret[p] = 0
            /\ err[p].kind = "Exception"
            /\ err[p].text = "Wrong server response: "
            /\ err[p].status = res2[p].status
            /\ err[p].reason = res2[p].reason
            /\ err[p].reason # ""

C3_Witness ==
    \E p \in Callers :
        pc[p] = "raised" /\ res2[p].received /\ res2[p].status = 500
            /\ err[p].reason = "Server Error"

StartsWith(s, prefix) ==
    Len(s) >= Len(prefix) /\ SubSeq(s, 1, Len(prefix)) = prefix

Contains(s, part) ==
    \E i \in 1 .. (Len(s) - Len(part) + 1) : SubSeq(s, i, i + Len(part) - 1) = part

\* Some ', '-separated token of raw has 'NTLM ' as its first five characters:
\* raw starts with 'NTLM ' or holds ', NTLM '.
HasNTLMToken(raw) ==
    StartsWith(raw, NTLM_) \/ Contains(raw, COMMA_SPACE \o NTLM_)

\* Lines 77-85 have run in p's call on the first response it read.
ChallengeLookedUp(p) == res1[p].received /\ pc[p] # "find_challenge"

RawHeader(p) == Item(reshdr[p], resp_header)

\* C4: when the first response has the www-authenticate header and none of
\* its ', '-separated tokens starts with 'NTLM ', the call fails with the
\* 'Unexpected ... response header' exception holding the raw, unsplit header
\* value, and only the NEGOTIATE request has been sent.
C4_MissingChallengeFails ==
    \A p \in Callers :
        (/\ ChallengeLookedUp(p)
         /\ HasKey(reshdr[p], resp_header)
         /\ ~HasNTLMToken(RawHeader(p))) =>
            /\ pc[p] = "raised"
            /\ ret[p] = 0
            /\ err[p].kind = "Exception"
            /\ err[p].text = "Unexpected www-authenticate response header: "
            /\ err[p].header = RawHeader(p)
            /\ Len(Requests(wire[p])) = 1
            /\ Requests(wire[p])[1].request.headers.Authorization.token.type = "NEGOTIATE"
            /\ ~res2[p].received

C4_Witness ==
    \E p \in Callers :
        /\ ChallengeLookedUp(p)
        /\ HasKey(reshdr[p], resp_header)
        /\ ~HasNTLMToken(RawHeader(p))
        /\ Contains(RawHeader(p), COMMA_SPACE)
        /\ pc[p] = "raised"

\* C5 (as claimed): when the first response has no www-authenticate entry in
\* its header map, the call fails with the same kind of error as for a header
\* without an NTLM token.
C5_MissingHeaderSameKind ==
    \A p \in Callers :
        (ChallengeLookedUp(p) /\ ~HasKey(reshdr[p], resp_header)) =>
            /\ pc[p] = "raised"
            /\ err[p].kind = UnexpectedHeader(<< >>).kind

\* The remainder of the first token of raw that is prefixed 'NTLM '.
FirstNTLMToken(raw) ==
    LET tokens == Split(raw, COMMA_SPACE)
        first == Min({i \in 1 .. Len(tokens) : StartsWith(tokens[i], NTLM_)})
    IN  SliceFrom(tokens[first], 5)

\* C6 (as claimed): the challenge token handed to the codec is the remainder
\* of the first 'NTLM '-prefixed token of the header value, in header order.
C6_FirstNTLMTokenUsed ==
    \A p \in Callers :
        (/\ ChallengeLookedUp(p)
         /\ HasKey(reshdr[p], resp_header)
         /\ HasNTLMToken(RawHeader(p))) =>
            /\ auth_header_value[p].found
            /\ auth_header_value[p].value = FirstNTLMToken(RawHeader(p))

HasBackslash(s) == \E i \in 1 .. Len(s) : s[i] = "\\"

FirstBackslash(s) == Min({i \in 1 .. Len(s) : s[i] = "\\"})

\* The NEGOTIATE requests sent so far by any caller.
NegotiateRequests ==
    {e \in UNION {{wire[p][i] : i \in 1 .. Len(wire[p])} : p \in Callers} :
        /\ e.what = "request"
        /\ e.request.headers.Authorization.token.type = "NEGOTIATE"}

\* C7: for every identifier with a backslash, construction succeeds with
\* domain = the text before the first backslash in upper case, user = the text
\* after the first backslash exactly as given, and the identifier itself kept
\* as rawuser, which is what every NEGOTIATE message is created from.
C7_CredentialParsed ==
    (ctor # "none" /\ HasBackslash(args.user)) =>
        LET cut == FirstBackslash(args.user)
        IN  /\ ctor = "ok"
            /\ ctorErr = NoError
            /\ Len(pool.domain) = cut - 1
            /\ \A k \in 1 .. (cut - 1) :
                  pool.domain[k] = (IF args.user[k] = "a" THEN "A" ELSE args.user[k])
            /\ pool.user = SubSeq(args.user, cut + 1, Len(args.user))
            /\ pool.rawuser = args.user
            /\ pool.pw = args.pw
            /\ \A e \in NegotiateRequests :
                  e.request.headers.Authorization.token.rawuser = args.user

C7_Witness ==
    /\ ctor = "ok"
    /\ args.user = << "a", "\\", "\\" >>
    /\ pool.domain = << "A" >>
    /\ pool.user = << "\\" >>
    /\ NegotiateRequests # {}

\* C8: for every identifier without a backslash, construction fails, inside
\* __init__ and before user and pw are assigned, and _new_conn is never
\* started on that pool; _new_conn only ever runs on a pool whose domain,
\* user and pw are all set.
C8_MalformedCredentialFails ==
    /\ (ctor # "none" /\ ~HasBackslash(args.user)) =>
          /\ ctor = "failed"
          /\ ctorErr # NoError
          /\ ctorErr.kind = "IndexError"
          /\ pool.attrs \cap {"user", "pw"} = {}
          /\ \A p \in Callers : pc[p] = "idle" /\ calls[p] = 0 /\ wire[p] = << >>
    /\ \A p \in Callers :
          calls[p] > 0 => ctor = "ok" /\ {"domain", "user", "pw"} \subseteq pool.attrs

C8_Witness ==
    /\ ctor = "failed"
    /\ args.user = << "a", "a" >>
    /\ "domain" \in pool.attrs
    /\ "user" \notin pool.attrs

Exchange(p) ==
    LET events == SelectSeq(wire[p], LAMBDA e : e.what # "connect")
    IN  [i \in 1 .. Len(events) |-> events[i].what]

HandshakeOrder == << "request", "response", "request", "response" >>

\* C10: within one call the wire shows NEGOTIATE request, first response,
\* AUTHENTICATE request, second response, in that order; both requests are
\* GETs of self.authurl on the one connection object with Connection:
\* Keep-Alive; the AUTHENTICATE message is created from the challenge and
\* flags parsed from an NTLM token of that call's first response and from the
\* stored user, domain and pw, and is not sent before that response was read.
C10_HandshakeOrdered ==
    \A p \in Callers :
        LET reqs == Requests(wire[p])
            token(i) == reqs[i].request.headers.Authorization.token
            exchange == Exchange(p)
            tokens == Split(RawHeader(p), COMMA_SPACE)
        IN  /\ Len(exchange) <= 4
            /\ exchange = SubSeq(HandshakeOrder, 1, Len(exchange))
            /\ \A i \in 1 .. Len(reqs) :
                  /\ reqs[i].request.method = "GET"
                  /\ reqs[i].request.url = args.authurl
                  /\ reqs[i].request.headers.Connection = "Keep-Alive"
                  /\ reqs[i].request.headers.Authorization.scheme = "NTLM"
                  /\ reqs[i].conn = conn[p].id
            /\ Len(reqs) >= 1 => token(1) = create_NTLM_NEGOTIATE_MESSAGE(args.user)
            /\ Len(reqs) >= 2 =>
                  /\ res1[p].received
                  /\ HasKey(reshdr[p], resp_header)
                  /\ \E t \in {tokens[k] : k \in 1 .. Len(tokens)} :
                        /\ StartsWith(t, NTLM_)
                        /\ LET parsed == parse_NTLM_CHALLENGE_MESSAGE(SliceFrom(t, 5))
                           IN  /\ token(2).type = "AUTHENTICATE"
                               /\ token(2).ServerChallenge = parsed.ServerChallenge
                               /\ token(2).NegotiateFlags = parsed.NegotiateFlags
                  /\ token(2).user = pool.user
                  /\ token(2).domain = pool.domain
                  /\ token(2).pw = args.pw

C10_Witness ==
    \E p \in Callers :
        /\ Exchange(p) = HandshakeOrder
        /\ Requests(wire[p])[2].request.headers.Authorization.token.ServerChallenge
              = "challengeB"
        /\ pool.user # pool.domain

(***************************************************************************)
(* C11: a connection that establish has returned has its socket open, and  *)
(* both response objects of the handshake were detached from the socket    *)
(* (fp cleared) before the return, so that disposing of them later cannot  *)
(* close it.                                                               *)
(***************************************************************************)
C11_ReturnedSocketOpen ==
    \A p \in Callers :
        ret[p] # 0 =>
            /\ conn[p].id = ret[p]
            /\ conn[p].sock = "open"
            /\ res1[p].received /\ res1[p].fp = "None"
            /\ res2[p].received /\ res2[p].fp = "None"

C11_Witness ==
    \E p \in Callers :
        /\ pc[p] = "returned"
        /\ ret[p] = conn[p].id
        /\ conn[p].sock = "open"
        /\ res1[p].fp = "None"
        /\ res2[p].fp = "None"
        /\ res2[p].status = 200

(***************************************************************************)
(* C12: when establish ends with a transport failure (connect, send, read  *)
(* or timeout, at either exchange), no connection is returned and the      *)
(* socket the call opened is closed.                                       *)
(***************************************************************************)
C12_TransportFailureReleasesSocket ==
    \A p \in Callers :
        (pc[p] = "raised" /\ err[p] = TransportError) =>
            /\ ret[p] = 0
            /\ conn[p].sock # "open"

C19_NoUnreadByteAtAuthenticate ==
    \A p \in Callers :
        /\ Len(Requests(wire[p])) = 2 => conn[p].unread = 0
        /\ res2[p].received => res2[p].source = "reply"

(***************************************************************************)
(* C14: every urlopen call hands the underlying pool a header map whose    *)
(* 'Connection' entry is 'Keep-Alive': when no map was given the map has   *)
(* that entry alone, a given 'Connection: close' is overwritten, and a     *)
(* call given the headers that the previous call handed over hands over    *)
(* the same headers again.                                                 *)
(***************************************************************************)
C14_KeepAliveForced ==
    /\ [](last_urlopen.called =>
            LET given == last_urlopen.given.headers
                passed == last_urlopen.passed.headers
                keep_alive == [name |-> "Connection", value |-> "Keep-Alive"]
            IN  /\ keep_alive \in passed
                /\ \A e \in passed : e.name = "Connection" => e = keep_alive
                /\ given = << >> => passed = {keep_alive})
    /\ [][(/\ last_urlopen.called
           /\ last_urlopen'.given.headers = <<last_urlopen.passed.headers>>)
            => last_urlopen'.passed.headers = last_urlopen.passed.headers]_vars

C14_Witness ==
    /\ last_urlopen.called
    /\ last_urlopen.given.headers =
          << {[name |-> "Connection", value |-> "close"],
              [name |-> "Accept", value |-> "*/*"]} >>
    /\ [name |-> "Connection", value |-> "Keep-Alive"] \in last_urlopen.passed.headers
    /\ [name |-> "Connection", value |-> "close"] \notin last_urlopen.passed.headers

(***************************************************************************)
(* C15: urlopen passes method, url and body on as given, retries, redirect *)
(* and assert_same_host as given or as 3, true and true when left out,     *)
(* every header entry other than 'Connection' as given, and ends as the    *)
(* underlying pool's urlopen ends.                                         *)
(***************************************************************************)
C15_DelegatesUnchanged ==
    last_urlopen.called =>
        LET given == last_urlopen.given
            passed == last_urlopen.passed
            others(d) == {e \in d : e.name # "Connection"}
        IN  /\ passed.method = given.method
            /\ passed.url = given.url
            /\ passed.body = given.body
            /\ passed.retries = (IF given.retries = << >> THEN 3 ELSE given.retries[1])
            /\ passed.redirect =
                  (IF given.redirect = << >> THEN TRUE ELSE given.redirect[1])
            /\ passed.assert_same_host =
                  (IF given.assert_same_host = << >>
                   THEN TRUE ELSE given.assert_same_host[1])
            /\ others(passed.headers) =
                  (IF given.headers = << >> THEN {} ELSE others(given.headers[1]))
            /\ last_urlopen.outcome = last_urlopen.super

C15_Witness ==
    /\ last_urlopen.called
    /\ last_urlopen.given.retries = <<0>>
    /\ last_urlopen.given.redirect = << >>
    /\ last_urlopen.given.assert_same_host = <<FALSE>>
    /\ last_urlopen.passed.redirect
    /\ last_urlopen.given.body = <<"data">>
    /\ [name |-> "Accept", value |-> "*/*"] \in last_urlopen.passed.headers
    /\ last_urlopen.outcome.kind = "raise"

(***************************************************************************)
(* C16: of the calls that run concurrently on one pool, each whose server  *)
(* answered 200 to its AUTHENTICATE request has returned its connection,   *)
(* the connections returned are pairwise distinct, and each call's         *)
(* AUTHENTICATE message carries the challenge and flags of the header that *)
(* call itself received.                                                   *)
(***************************************************************************)
C16_CallsIndependent ==
    /\ \A p \in Callers :
          (pc[p] \in Ended /\ res2[p].received /\ res2[p].status = 200) =>
              /\ pc[p] = "returned"
              /\ ret[p] = conn[p].id
              /\ ret[p] # 0
    /\ \A p, q \in Callers :
          (p # q /\ ret[p] # 0 /\ ret[q] # 0) => ret[p] # ret[q]
    /\ \A p \in Callers :
          headers[p].Authorization.token.type = "AUTHENTICATE" =>
              LET own == parse_NTLM_CHALLENGE_MESSAGE(
                             SliceFrom(Item(reshdr[p], resp_header), 5))
                  sent == headers[p].Authorization.token
              IN  /\ sent.ServerChallenge = own.ServerChallenge
                  /\ sent.NegotiateFlags = own.NegotiateFlags

C16_Witness ==
    /\ \A p \in Callers : pc[p] = "returned" /\ ret[p] # 0
    /\ \E p, q \in Callers :
          /\ reshdr[p] # reshdr[q]
          /\ headers[p].Authorization.token.ServerChallenge = "challengeA"
          /\ headers[q].Authorization.token.ServerChallenge = "challengeB"

(***************************************************************************)
(* C18: once the calls that ran concurrently have all finished, the pool's *)
(* num_connections equals its initial value, 0, plus the number of calls   *)
(* made: no increment is lost.                                             *)
(***************************************************************************)
C18_NoIncrementLost ==
    (ctor = "ok" /\ \A p \in Callers : pc[p] \in {"idle"} \cup Ended) =>
        pool.num_connections =
            Cardinality({c \in Callers \X (1 .. MaxCalls) : c[2] <= calls[c[1]]})

(***************************************************************************)
(* C17 as stated: after construction no _new_conn or urlopen step writes   *)
(* pool state; the credential and target are the only state that calls    *)
(* share, and they are only read.                                          *)
(***************************************************************************)
C17_OnlyCredentialsShared == [][ctor = "ok" => pool' = pool]_vars

(***************************************************************************)
(* C17: after construction no _new_conn or urlopen step changes rawuser,   *)
(* domain, user, pw or authurl; the one attribute of the pool that calls   *)
(* write, and so share besides these, is num_connections.                  *)
(***************************************************************************)
C17_CredentialsOnlyRead ==
    [][ctor = "ok" =>
          /\ pool'.rawuser = pool.rawuser
          /\ pool'.domain = pool.domain
          /\ pool'.user = pool.user
          /\ pool'.pw = pool.pw
          /\ pool'.authurl = pool.authurl
          /\ pool' = [pool EXCEPT !.num_connections = pool'.num_connections]]_vars

C17_Witness ==
    /\ ctor = "ok"
    /\ pool.num_connections > 0
    /\ last_urlopen.called
    /\ \A p \in Pair : pc[p] \in Ended
    /\ \E p \in Pair : pc[p] = "raised"
    /\ pool.rawuser = args.user
    /\ pool.pw = args.pw
    /\ pool.authurl = args.authurl

(***************************************************************************)
(* C20: two calls that received the same www-authenticate header and the   *)
(* same second response (or none, for the same reason) sent the same       *)
(* AUTHENTICATE request and ended alike, whatever status each first        *)
(* response had.                                                           *)
(***************************************************************************)
C20_FirstStatusIgnored ==
    \A p, q \in Pair :
        (/\ pc[p] \in Ended /\ pc[q] \in Ended
         /\ res1[p].received /\ res1[q].received
         /\ reshdr[p] = reshdr[q]
         /\ res2[p].received = res2[q].received
         /\ res2[p].status = res2[q].status
         /\ res2[p].reason = res2[q].reason
         /\ (err[p] = TransportError) = (err[q] = TransportError))
        => /\ headers[p] = headers[q]
           /\ err[p] = err[q]
           /\ pc[p] = pc[q]
           /\ (ret[p] # 0) = (ret[q] # 0)

C20_Witness ==
    /\ pc[1] = "returned" /\ pc[2] = "returned"
    /\ res1[1].status = 401 /\ res1[2].status = 200
    /\ reshdr[1] = reshdr[2]
    /\ headers[1] = headers[2]
    /\ headers[1].Authorization.token.type = "AUTHENTICATE"

=============================================================================
